---- MODULE Spec2Model ----
(***************************************************************************)
(* Model of the Waitly SDK client (src/src/index.ts): configuration        *)
(* resolution, the three public operations, the request executor with its  *)
(* retry loop, timeout timer and cancellation registry, and the error      *)
(* normaliser.                                                             *)
(*                                                                         *)
(* JavaScript objects are functions from field names to values; a field    *)
(* that is absent (undefined) is not in the DOMAIN.  Strings that the code *)
(* inspects character by character (emails) are sequences of one-character *)
(* strings.                                                                *)
(***************************************************************************)
EXTENDS Integers, Sequences, FiniteSets, TLC

VARIABLES
    client,            \* the constructed WaitlyClient (its resolved config) or the constructor's failure
    now,               \* Date.now()
    abortControllers,  \* WaitlyClient.abortControllers: requestId -> the request whose controller it is
    req,               \* per call: position in request(), loop variables, observed history, outcome
    normIn,            \* handleError applied on its own: the raw error ...
    normOut            \* ... and what it returned

vars == <<client, now, abortControllers, req, normIn, normOut>>

(***************************************************************************)
(* Bounds of the model.                                                    *)
(***************************************************************************)
MaxReqs == 2        \* calls issued on one client
MaxClock == 1       \* Date.now() ranges over 0..MaxClock
MaxRetry == 3       \* largest retryAttempts a configuration names (single call)
MaxRetryCore == 2   \* largest retryAttempts of a client with overlapping calls
MaxEmailLen == 5    \* longest email string drawn

Reqs == 1..MaxReqs

(***************************************************************************)
(* JavaScript object helpers.                                              *)
(***************************************************************************)
EmptyObj == <<>>

Has(o, f) == f \in DOMAIN o

\* { ...base, ...o }: the fields of o override those of base
Spread(base, o) ==
    [k \in (DOMAIN base) \cup (DOMAIN o) |-> IF k \in DOMAIN o THEN o[k] ELSE base[k]]

\* Map.set / Map.delete on the registry
MapSet(m, k, v) == [x \in (DOMAIN m) \cup {k} |-> IF x = k THEN v ELSE m[x]]

\* C12 mutant: the key is never deleted
MapDeleteKeeps(m, k) == m

MapDelete(m, k) == [x \in (DOMAIN m) \ {k} |-> m[x]]

\* the value `undefined` where an error object is expected (lastError before any attempt)
Undefined == [jsUndefined |-> TRUE]

(***************************************************************************)
(* Error objects the runtime and the code create.                          *)
(***************************************************************************)
\* new Error(msg)
JsError(msg) == [name |-> "Error", message |-> msg]

\* fetch rejecting because its signal was aborted (a DOMException named AbortError)
AbortError == [name |-> "AbortError", message |-> "This operation was aborted"]

\* fetch rejecting for a network failure
NetworkError == [name |-> "TypeError", message |-> "fetch failed"]

\* response.json() on a body that is not JSON
SyntaxError == [name |-> "SyntaxError", message |-> "Unexpected token in JSON"]

\* response.json() on a body that was already read
BodyUsedError == [name |-> "TypeError", message |-> "Body is unusable"]

\* JSON.stringify(body) on a body that refers to itself
StringifyError == [name |-> "TypeError", message |-> "Converting circular structure to JSON"]

\* reading a property of, or applying `in` to, null or undefined
NullAccessError == [name |-> "TypeError", message |-> "Cannot read properties of null"]

(***************************************************************************)
(* handleError (src/src/index.ts 221-277).  `x || y` takes y when x is     *)
(* absent, the empty string or 0.                                          *)
(***************************************************************************)
StatusIs(error, s) == Has(error, "statusCode") /\ error["statusCode"] = s

MessageOr(error, fallback) ==
    IF Has(error, "message") /\ error["message"] # "" THEN error["message"] ELSE fallback

StatusOrZero(error) ==
    IF Has(error, "statusCode") THEN error["statusCode"] ELSE 0

\* details: error.details (an absent field stays absent)
WithDetails(o, error) ==
    IF Has(error, "details") THEN Spread(o, [details |-> error["details"]]) ELSE o

\* C6 mutant: the raw error is rethrown as it is
handleErrorIdentity(error) == error

\* C7 mutant: the 409 row is missing from the table
handleErrorNo409(error) ==
    IF StatusIs(error, 400)
    THEN WithDetails([code |-> "VALIDATION_ERROR",
                      message |-> MessageOr(error, "Invalid request data"),
                      statusCode |-> 400], error)
    ELSE IF StatusIs(error, 401)
    THEN [code |-> "UNAUTHORIZED", message |-> "Invalid API key", statusCode |-> 401]
    ELSE IF StatusIs(error, 404)
    THEN [code |-> "NOT_FOUND", message |-> "Waitlist not found", statusCode |-> 404]
    ELSE IF StatusIs(error, 429)
    THEN [code |-> "RATE_LIMIT", message |-> "Too many requests", statusCode |-> 429]
    ELSE IF Has(error, "message") /\ error["message"] = "Request timeout"
    THEN [code |-> "TIMEOUT", message |-> "Request timeout", statusCode |-> 0]
    ELSE [code |-> "UNKNOWN_ERROR",
          message |-> MessageOr(error, "An unexpected error occurred"),
          details |-> error,
          statusCode |-> StatusOrZero(error)]

handleError(error) ==
    IF StatusIs(error, 400)
    THEN WithDetails([code |-> "VALIDATION_ERROR",
                      message |-> MessageOr(error, "Invalid request data"),
                      statusCode |-> 400], error)
    ELSE IF StatusIs(error, 401)
    THEN [code |-> "UNAUTHORIZED", message |-> "Invalid API key", statusCode |-> 401]
    ELSE IF StatusIs(error, 404)
    THEN [code |-> "NOT_FOUND", message |-> "Waitlist not found", statusCode |-> 404]
    ELSE IF StatusIs(error, 409)
    THEN [code |-> "DUPLICATE_ENTRY",
          message |-> MessageOr(error, "Email already registered"),
          statusCode |-> 409]
    ELSE IF StatusIs(error, 429)
    THEN [code |-> "RATE_LIMIT", message |-> "Too many requests", statusCode |-> 429]
    ELSE IF Has(error, "message") /\ error["message"] = "Request timeout"
    THEN [code |-> "TIMEOUT", message |-> "Request timeout", statusCode |-> 0]
    ELSE [code |-> "UNKNOWN_ERROR",
          message |-> MessageOr(error, "An unexpected error occurred"),
          details |-> error,
          statusCode |-> StatusOrZero(error)]

\* `throw this.handleError(error)` in the catch of a public operation: what the
\* caller receives.  handleError reads error.statusCode first, which itself
\* throws a TypeError when error is undefined.
ThrownByCatch(error) ==
    IF error = Undefined THEN NullAccessError ELSE handleError(error)

(***************************************************************************)
(* isValidEmail (279-282): /^[^\s@]+@[^\s@]+\.[^\s@]+$/ .test(email).      *)
(* A string matches when it splits as L @ X . Y with L, X, Y non-empty and *)
(* free of whitespace and '@'.  test() converts its argument to a string,  *)
(* so undefined is tested as "undefined".                                  *)
(***************************************************************************)
Chars == {"a", ".", "@", " "}

IsSpace(c) == c = " "

\* C8 mutant: the character class is [^@], whitespace is let through
PlainAllowsSpace(c) == c # "@"

\* [^\s@]
Plain(c) == ~IsSpace(c) /\ c # "@"

AllPlain(s, from, to) == \A i \in from..to : Plain(s[i])

\* the pattern matched against s from position `first` to the end of s
MatchFrom(s, first) ==
    \E at \in (first + 1)..Len(s) :
        /\ s[at] = "@"
        /\ AllPlain(s, first, at - 1)
        /\ \E dot \in (at + 2)..(Len(s) - 1) :
              /\ s[dot] = "."
              /\ AllPlain(s, at + 1, dot - 1)
              /\ AllPlain(s, dot + 1, Len(s))

UndefinedAsString == <<"u", "n", "d", "e", "f", "i", "n", "e", "d">>

\* emailRegex.test(s): anchored at both ends
RegexTest(s) == MatchFrom(s, 1)

\* the argument is an object with an optional email field
isValidEmail(arg) ==
    RegexTest(IF Has(arg, "email") THEN arg["email"] ELSE UndefinedAsString)

(***************************************************************************)
(* constructor (42-58).  A configuration argument is an object whose       *)
(* fields may be absent; the empty string and 0 are falsy.                 *)
(***************************************************************************)
DefaultRetryAttempts == 3

\* !config.waitlistId, !config.apiKey: absent or the empty string
Blank(o, f) == ~Has(o, f) \/ o[f] = ""

\* config.retryAttempts || 3: absent or 0 takes the default
RetryAttemptsOf(config) ==
    IF ~Has(config, "retryAttempts") \/ config["retryAttempts"] = 0
    THEN DefaultRetryAttempts
    ELSE config["retryAttempts"]

\* the resolved configuration (50-57)
Resolved(config) ==
    [waitlistId |-> config["waitlistId"],
     apiKey |-> IF Has(config, "apiKey") THEN config["apiKey"] ELSE "",
     retryAttempts |-> RetryAttemptsOf(config),
     headers |-> IF Has(config, "headers") THEN config["headers"] ELSE EmptyObj]

\* C9 mutant: apiKey is not checked
ConstructNoApiKeyCheck(config) ==
    IF Blank(config, "waitlistId")
    THEN [state |-> "failed", arg |-> config, error |-> JsError("waitlistId is required")]
    ELSE [state |-> "ready", arg |-> config, config |-> Resolved(config)]

\* new WaitlyClient(config): the client with its resolved configuration, or the
\* error thrown; arg is the argument it was given
Construct(config) ==
    IF Blank(config, "waitlistId")
    THEN [state |-> "failed", arg |-> config, error |-> JsError("waitlistId is required")]
    ELSE IF Blank(config, "apiKey")
    THEN [state |-> "failed", arg |-> config, error |-> JsError("apiKey is required")]
    ELSE [state |-> "ready", arg |-> config, config |-> Resolved(config)]

(***************************************************************************)
(* Transport responses.  A response carries its status, its statusText and *)
(* what json() yields: a rejection (the body is not JSON), null, or an     *)
(* object.  `reusable` says what a second json() on the same response      *)
(* does: a fetch Response rejects (its body was read), a test double that  *)
(* keeps its payload answers again.                                        *)
(***************************************************************************)
InvalidBody == [json |-> "invalid"]
NullBody == [json |-> "null"]
ObjectBody(o) == [json |-> "object", value |-> o]

Response(status, text, body, reusable) ==
    [status |-> status, statusText |-> text, body |-> body, reusable |-> reusable]

\* response.ok
Ok(resp) == resp.status >= 200 /\ resp.status <= 299

\* response.json().catch(() => ({ message: `HTTP ${status}: ${statusText}` }))
ErrorBody(resp) ==
    IF resp.body.json = "invalid"
    THEN [message |-> "HTTP " \o ToString(resp.status) \o ": " \o resp.statusText]
    ELSE IF resp.body.json = "null" THEN EmptyObj
    ELSE resp.body.value

\* { statusCode: response.status, ...error }
StatusError(resp) == Spread([statusCode |-> resp.status], ErrorBody(resp))

(***************************************************************************)
(* One call of a public operation.                                         *)
(***************************************************************************)
IdleReq ==
    [pc |-> "idle",          \* idle | fetch (transport pending) | errorBody (json() pending at 180)
                             \* | data (json() pending at 198) | delay (backoff) | returned | raised
     op |-> "none",          \* create | count | check
     arg |-> EmptyObj,       \* the argument object
     requestId |-> <<>>,     \* registry key, once request() has run
     headers |-> EmptyObj,   \* the headers of the request's options
     attempt |-> 0,          \* the loop variable
     timer |-> FALSE,        \* the timeout is armed
     aborted |-> "no",       \* the controller's signal: no | timeout | cancel (who aborted it first)
     lastError |-> Undefined,
     calls |-> 0,            \* fetch invocations
     waits |-> <<>>,         \* the arguments of delay(), in order
     hist |-> <<>>,          \* how each fetch ended
     lastResp |-> EmptyObj,  \* the last response received: its status line, and its body once read
     result |-> EmptyObj]    \* what the caller got

Method(op) == IF op = "count" THEN "GET" ELSE "POST"

Endpoint(op, waitlistId) ==
    <<"/api/waitlists/", waitlistId,
      IF op = "create" THEN "/entries" ELSE IF op = "count" THEN "/count" ELSE "/check">>

\* `${method}-${endpoint}-${Date.now()}`
RequestId(op, waitlistId, time) == <<Method(op), Endpoint(op, waitlistId), time>>

\* truthiness of error.statusCode
HasStatus(error) == Has(error, "statusCode") /\ error["statusCode"] # 0

\* C2 mutant: a constant one-second backoff
BackoffConstant(attempt) == 1000

\* Math.pow(2, attempt) * 1000
BackoffMs(attempt) == (2 ^ attempt) * 1000

\* the error leaves request() and the operation's catch rethrows it normalised
Raise(q, error) ==
    [q EXCEPT !.pc = "raised", !.result = [raised |-> ThrownByCatch(error)]]

\* await this.delay(ms); continue
Delay(q, ms) == [q EXCEPT !.pc = "delay", !.waits = Append(@, ms)]

\* C16 mutant: the loop runs one iteration too many
LoopHeadOffByOne(q, retryAttempts, attempt) ==
    IF attempt <= retryAttempts
    THEN [q EXCEPT !.pc = "fetch", !.attempt = attempt, !.calls = @ + 1]
    ELSE Raise(q, q.lastError)

\* the head of the for loop (172) with the loop variable at `attempt`, and
\* `throw lastError` (218) once the loop is over
LoopHead(q, retryAttempts, attempt) ==
    IF attempt < retryAttempts
    THEN [q EXCEPT !.pc = "fetch", !.attempt = attempt, !.calls = @ + 1]
    ELSE Raise(q, q.lastError)

\* C3 mutant: an aborted fetch is handled like a network failure
CatchNoAbortBranch(q, retryAttempts, error) ==
    LET q2 == [q EXCEPT !.timer = FALSE, !.lastError = error]
    IN  IF q.attempt < retryAttempts - 1 /\ ~HasStatus(error)
        THEN Delay(q2, BackoffMs(q.attempt))
        ELSE LoopHead(q2, retryAttempts, q.attempt + 1)

\* C19 mutant: a fetch aborted by cancelAllRequests raises an error of its own
CatchTellsCancelApart(q, retryAttempts, error) ==
    LET q1 == [q EXCEPT !.timer = FALSE]
        q2 == [q1 EXCEPT !.lastError = error]
    IN  IF Has(error, "name") /\ error["name"] = "AbortError"
        THEN Raise(q1, JsError(IF q.aborted = "cancel" THEN "Request cancelled"
                                                       ELSE "Request timeout"))
        ELSE IF q.attempt < retryAttempts - 1 /\ ~HasStatus(error)
        THEN Delay(q2, BackoffMs(q.attempt))
        ELSE LoopHead(q2, retryAttempts, q.attempt + 1)

\* the catch block of the loop body (200-215); falling out of it runs the
\* loop's next iteration
Catch(q, retryAttempts, error) ==
    LET q1 == [q EXCEPT !.timer = FALSE]
        q2 == [q1 EXCEPT !.lastError = error]
    IN  IF Has(error, "name") /\ error["name"] = "AbortError"
        THEN Raise(q1, JsError("Request timeout"))
        ELSE IF q.attempt < retryAttempts - 1 /\ ~HasStatus(error)
        THEN Delay(q2, BackoffMs(q.attempt))
        ELSE LoopHead(q2, retryAttempts, q.attempt + 1)

\* C10 mutant: count is preferred over totalEntries
CountOfPreferCount(data) ==
    IF Has(data, "count") THEN [returned |-> "number", number |-> data["count"]]
    ELSE IF Has(data, "totalEntries")
    THEN [returned |-> "number", number |-> data["totalEntries"]]
    ELSE [returned |-> "undefined"]

\* 'totalEntries' in response ? response.totalEntries : response.count  (100-102)
CountOf(data) ==
    IF Has(data, "totalEntries")
    THEN [returned |-> "number", number |-> data["totalEntries"]]
    ELSE IF Has(data, "count") THEN [returned |-> "number", number |-> data["count"]]
    ELSE [returned |-> "undefined"]

\* response.exists (124)
ExistsOf(data) ==
    IF Has(data, "exists") THEN [returned |-> "boolean", boolean |-> data["exists"]]
    ELSE [returned |-> "undefined"]

\* `return data` (199) and what the public operation makes of it (83, 100-102, 124);
\* `in` and property access on null throw inside the operation's try
Return(q, body) ==
    IF body.json = "null"
    THEN IF q.op = "create"
         THEN [q EXCEPT !.pc = "returned", !.result = [returned |-> "null"]]
         ELSE [q EXCEPT !.pc = "raised", !.result = [raised |-> ThrownByCatch(NullAccessError)]]
    ELSE [q EXCEPT !.pc = "returned",
                   !.result = IF q.op = "create"
                              THEN [returned |-> "object", object |-> body.value]
                              ELSE IF q.op = "count" THEN CountOf(body.value)
                              ELSE ExistsOf(body.value)]

\* what the code has of a response when fetch resolves (174): the status line
StatusLine(resp) == [status |-> resp.status, statusText |-> resp.statusText]

\* the body of the request's last response has been read once (at 180)
BodyUsed(q) == Has(q.lastResp, "body")

\* response.json() at 198 rejects; secondRead: the body was read at 180
DataRejects(resp, secondRead) ==
    (secondRead /\ ~resp.reusable) \/ resp.body.json = "invalid"

\* const data = await response.json() (198), once the read has settled
ReadData(q, retryAttempts, resp, secondRead) ==
    IF secondRead /\ ~resp.reusable THEN Catch(q, retryAttempts, BodyUsedError)
    ELSE IF resp.body.json = "invalid" THEN Catch(q, retryAttempts, SyntaxError)
    ELSE Return(q, resp.body)

\* the loop body from the resolution of fetch (174) to the await of the body:
\* the timeout is cleared (176) and the request waits in response.json(), at
\* 180 for a response that is not ok and at 198 for one that is
OnResponse(q, resp) ==
    [q EXCEPT !.timer = FALSE,
              !.hist = Append(@, [status |-> resp.status]),
              !.lastResp = StatusLine(resp),
              !.pc = IF Ok(resp) THEN "data" ELSE "errorBody"]

\* the loop body after the await at 180 (181-196): a 4xx is thrown into the
\* loop's catch, a 5xx waits and retries, and on the last attempt goes on to
\* the await at 198
OnErrorBody(q, retryAttempts, resp) ==
    LET q1 == [q EXCEPT !.lastResp = resp]
        q2 == [q1 EXCEPT !.lastError = StatusError(resp)]
    IN  IF resp.status >= 400 /\ resp.status < 500
        THEN Catch(q1, retryAttempts, StatusError(resp))
        ELSE IF q.attempt < retryAttempts - 1
        THEN Delay(q2, BackoffMs(q.attempt))
        ELSE [q2 EXCEPT !.pc = "data"]

\* the loop body after the await at 198 (199, or 200-215 when the read rejects)
OnData(q, retryAttempts, resp) ==
    ReadData([q EXCEPT !.lastResp = resp], retryAttempts, resp, BodyUsed(q))

\* the settled read throws into the loop's catch, which deletes the key again (202)
Caught(q, resp) ==
    IF q.pc = "errorBody"
    THEN resp.status >= 400 /\ resp.status < 500
    ELSE DataRejects(resp, BodyUsed(q))

\* the loop body from the rejection of fetch
OnReject(q, retryAttempts, failure, error) ==
    Catch([q EXCEPT !.hist = Append(@, [failure |-> failure])], retryAttempts, error)

\* the headers of options (155-161): the configured extra headers are spread last
RequestHeaders(config) ==
    Spread(("Content-Type" :> "application/json") @@ ("X-API-Key" :> config.apiKey) @@
           ("X-SDK-Version" :> "1.0.0") @@ ("X-Waitlist-ID" :> config.waitlistId),
           config.headers)

\* a metadata object that refers to itself
Circular == [self |-> "circular"]

\* JSON.stringify(body) returns (166): the body has no metadata that refers to itself
Serializable(arg) == ~Has(arg, "metadata") \/ arg["metadata"] # Circular

\* request() up to its first fetch (140-174); only createWaitlyEntry puts the
\* caller's metadata in the body (80), and a body that cannot be serialised
\* throws after the handle is registered and the timeout armed
StartRequest(q, op, arg, config, time) ==
    LET q1 == [q EXCEPT !.op = op, !.arg = arg,
                        !.requestId = RequestId(op, config.waitlistId, time),
                        !.headers = RequestHeaders(config),
                        !.timer = TRUE]
    IN  IF op = "create" /\ ~Serializable(arg)
        THEN Raise(q1, StringifyError)
        ELSE LoopHead(q1, config.retryAttempts, 0)

\* a local validation failure, thrown before the operation's try
Reject(q, op, arg, msg) ==
    [q EXCEPT !.op = op, !.arg = arg, !.pc = "raised", !.result = [raised |-> JsError(msg)]]

(***************************************************************************)
(* Inputs: configurations, arguments and transport behaviours.             *)
(***************************************************************************)
\* the extra-headers maps a configuration names
ExtraHeaders ==
    { ("X-Custom" :> "v"), ("X-API-Key" :> "key_other"), ("X-Waitlist-ID" :> "wl_other") }

ConfigArgs ==
    { Spread(Spread(Spread(w, k), n), h) :
        w \in {EmptyObj, [waitlistId |-> ""], [waitlistId |-> "wl_1"]},
        k \in {EmptyObj, [apiKey |-> ""], [apiKey |-> "key_1"]},
        n \in {EmptyObj} \cup {[retryAttempts |-> i] : i \in (-1)..MaxRetry},
        h \in {EmptyObj} \cup {[headers |-> x] : x \in ExtraHeaders} }

\* the configurations of clients used for overlapping calls
CoreConfigs ==
    { [waitlistId |-> "wl_1", apiKey |-> "key_1", retryAttempts |-> i] :
        i \in {-1} \cup 1..MaxRetryCore }

\* the configurations of clients used for a single call
OneConfigs ==
    { [waitlistId |-> "wl_1", apiKey |-> "key_1", retryAttempts |-> i] :
        i \in {-1} \cup 1..MaxRetry }

Str(s) == [email |-> s]

\* a valid address with metadata that JSON.stringify rejects
Unserializable == [email |-> <<"a", "@", "a", ".", "a">>, metadata |-> Circular]

\* a valid address, and one of each malformed kind
SampleArgs ==
    { EmptyObj, Str(<<>>),
      Str(<<"a", "@", "a", ".", "a">>),
      Str(<<"a", "a", ".", "a">>),
      Str(<<"a", "@", "a", "a">>),
      Str(<<"a", " ", "@", "a", ".", "a">>),
      Unserializable }

\* the arguments of overlapping calls: a valid address and a malformed one
CoreArgs == { Str(<<"a", "@", "a", ".", "a">>), Str(<<"a", "a", ".", "a">>), Unserializable }

\* every string over Chars up to MaxEmailLen, and the missing argument
AllArgs ==
    {EmptyObj} \cup { Str(s) : s \in UNION { [1..n -> Chars] : n \in 0..MaxEmailLen } }

StatusText(status) ==
    CASE status = 200 -> "OK"
      [] status = 400 -> "Bad Request"
      [] status = 401 -> "Unauthorized"
      [] status = 403 -> "Forbidden"
      [] status = 404 -> "Not Found"
      [] status = 409 -> "Conflict"
      [] status = 429 -> "Too Many Requests"
      [] status = 500 -> "Internal Server Error"
      [] OTHER -> "Service Unavailable"

PayloadBodies ==
    { InvalidBody, NullBody, ObjectBody(EmptyObj),
      ObjectBody([id |-> "e_1"]),
      ObjectBody([totalEntries |-> 5]),
      ObjectBody([count |-> 7]),
      ObjectBody([totalEntries |-> 5, count |-> 7]),
      ObjectBody([exists |-> TRUE]) }

ErrorBodies ==
    { InvalidBody, NullBody,
      ObjectBody([message |-> "bad", details |-> [field |-> "email"]]),
      ObjectBody([message |-> "Request timeout"]),
      ObjectBody([name |-> "AbortError"]),
      ObjectBody([statusCode |-> 0]) }

ClientErrorStatuses == {400, 401, 403, 404, 409, 429}
ServerErrorStatuses == {500, 503}

\* every transport answer the single-call specification draws
RichResponses ==
    { Response(200, StatusText(200), b, FALSE) : b \in PayloadBodies }
    \cup { Response(st, StatusText(st), b, FALSE) : st \in ClientErrorStatuses, b \in ErrorBodies }
    \cup { Response(st, StatusText(st), b, again) :
             st \in ServerErrorStatuses, b \in ErrorBodies, again \in BOOLEAN }

\* the answers the concurrent specification draws: a success, a client error, a server error
CoreResponses ==
    { Response(200, StatusText(200), ObjectBody([id |-> "e_1"]), FALSE),
      Response(404, StatusText(404), ObjectBody([message |-> "boom"]), FALSE),
      Response(500, StatusText(500), ObjectBody([message |-> "boom"]), FALSE) }

\* the status lines of these answers: what fetch resolves with before a body is read
RichStatusLines == { StatusLine(resp) : resp \in RichResponses }
CoreStatusLines == { StatusLine(resp) : resp \in CoreResponses }

\* raw errors handed to handleError on its own
RawErrors ==
    { Spread(Spread(Spread(st, m), d), n) :
        st \in {EmptyObj} \cup {[statusCode |-> c] : c \in {0, 400, 401, 403, 404, 409, 429, 500, 503}},
        m \in {EmptyObj, [message |-> ""], [message |-> "boom"], [message |-> "Request timeout"]},
        d \in {EmptyObj, [details |-> [field |-> "email"]]},
        n \in {EmptyObj, [name |-> "AbortError"]} }

(***************************************************************************)
(* Actions.                                                                *)
(***************************************************************************)
Ready == client.state = "ready"

\* calls are issued in slot order
CanIssue(r) ==
    /\ Ready
    /\ req[r].pc = "idle"
    /\ IF r = 1 THEN TRUE ELSE req[r - 1].pc # "idle"

\* new WaitlyClient(config)
NewClient(config) ==
    /\ client.state = "none"
    /\ client' = Construct(config)
    /\ UNCHANGED <<now, abortControllers, req, normIn, normOut>>

\* the clock advances between two events
Tick ==
    /\ now < MaxClock
    /\ now' = now + 1
    /\ UNCHANGED <<client, abortControllers, req, normIn, normOut>>

\* the registry after request() registered its controller (146)
Registered(r, op) ==
    MapSet(abortControllers, RequestId(op, client.config.waitlistId, now), r)

createWaitlyEntry(r, entry) ==
    /\ CanIssue(r)
    /\ IF ~Has(entry, "email") \/ entry["email"] = <<>>
       THEN /\ req' = [req EXCEPT ![r] = Reject(@, "create", entry, "Email is required")]
            /\ UNCHANGED abortControllers
       ELSE IF ~isValidEmail(entry)
       THEN /\ req' = [req EXCEPT ![r] = Reject(@, "create", entry, "Invalid email format")]
            /\ UNCHANGED abortControllers
       ELSE /\ req' = [req EXCEPT ![r] = StartRequest(@, "create", entry, client.config, now)]
            /\ abortControllers' = Registered(r, "create")
    /\ UNCHANGED <<client, now, normIn, normOut>>

getWaitlyEntriesCount(r) ==
    /\ CanIssue(r)
    /\ req' = [req EXCEPT ![r] = StartRequest(@, "count", EmptyObj, client.config, now)]
    /\ abortControllers' = Registered(r, "count")
    /\ UNCHANGED <<client, now, normIn, normOut>>

checkEmailExists(r, arg) ==
    /\ CanIssue(r)
    /\ IF ~isValidEmail(arg)
       THEN /\ req' = [req EXCEPT ![r] = Reject(@, "check", arg, "Invalid email format")]
            /\ UNCHANGED abortControllers
       ELSE /\ req' = [req EXCEPT ![r] = StartRequest(@, "check", arg, client.config, now)]
            /\ abortControllers' = Registered(r, "check")
    /\ UNCHANGED <<client, now, normIn, normOut>>

\* the requests whose controller is in the registry
RegisteredReqs == { abortControllers[k] : k \in DOMAIN abortControllers }

\* controller.abort(): the first abort sets the signal, later ones change nothing
Abort(q, by) == IF q.aborted = "no" THEN [q EXCEPT !.aborted = by] ELSE q

\* C17 mutant: the registry is not cleared
cancelAllRequestsNoClear ==
    /\ Ready
    /\ req' = [r \in Reqs |-> IF r \in RegisteredReqs THEN Abort(req[r], "cancel") ELSE req[r]]
    /\ UNCHANGED <<client, now, abortControllers, normIn, normOut>>

cancelAllRequests ==
    /\ Ready
    /\ req' = [r \in Reqs |-> IF r \in RegisteredReqs THEN Abort(req[r], "cancel") ELSE req[r]]
    /\ abortControllers' = EmptyObj
    /\ UNCHANGED <<client, now, normIn, normOut>>

\* the timeout callback (149-151)
TimeoutFires(r) ==
    /\ req[r].timer
    /\ req' = [req EXCEPT ![r] = [Abort(@, "timeout") EXCEPT !.timer = FALSE]]
    /\ UNCHANGED <<client, now, abortControllers, normIn, normOut>>

\* the transport answers a pending fetch with a status line (the body is
\* still to come); a fetch whose signal is aborted only rejects
FetchResolves(r, line) ==
    /\ req[r].pc = "fetch"
    /\ req[r].aborted = "no"
    /\ req' = [req EXCEPT ![r] = OnResponse(@, line)]
    /\ abortControllers' = MapDelete(abortControllers, req[r].requestId)
    /\ UNCHANGED <<client, now, normIn, normOut>>

\* a pending response.json() settles: the body of resp arrives for the read at
\* 180 or the first read at 198, or the read at 198 of a body already read
\* settles; the delete at 202 removes whatever handle is then under the key
JsonSettles(r, resp) ==
    /\ req[r].pc \in {"errorBody", "data"}
    /\ IF BodyUsed(req[r]) THEN resp = req[r].lastResp ELSE StatusLine(resp) = req[r].lastResp
    /\ req' = [req EXCEPT ![r] = IF @.pc = "errorBody"
                                 THEN OnErrorBody(@, client.config.retryAttempts, resp)
                                 ELSE OnData(@, client.config.retryAttempts, resp)]
    /\ abortControllers' = IF Caught(req[r], resp)
                           THEN MapDelete(abortControllers, req[r].requestId)
                           ELSE abortControllers
    /\ UNCHANGED <<client, now, normIn, normOut>>

\* the transport fails a pending fetch (network failure)
FetchFails(r) ==
    /\ req[r].pc = "fetch"
    /\ req[r].aborted = "no"
    /\ req' = [req EXCEPT ![r] = OnReject(@, client.config.retryAttempts, "network", NetworkError)]
    /\ abortControllers' = MapDelete(abortControllers, req[r].requestId)
    /\ UNCHANGED <<client, now, normIn, normOut>>

\* a pending fetch whose signal was aborted rejects with AbortError
FetchAborted(r) ==
    /\ req[r].pc = "fetch"
    /\ req[r].aborted # "no"
    /\ req' = [req EXCEPT ![r] = OnReject(@, client.config.retryAttempts, "abort", AbortError)]
    /\ abortControllers' = MapDelete(abortControllers, req[r].requestId)
    /\ UNCHANGED <<client, now, normIn, normOut>>

\* the backoff delay is over: continue with the next iteration
DelayElapses(r) ==
    /\ req[r].pc = "delay"
    /\ req' = [req EXCEPT ![r] = LoopHead(@, client.config.retryAttempts, @.attempt + 1)]
    /\ UNCHANGED <<client, now, abortControllers, normIn, normOut>>

\* handleError applied to a raw error on its own
Normalize ==
    /\ normOut = EmptyObj
    /\ normIn # EmptyObj
    /\ normOut' = handleError(normIn)
    /\ UNCHANGED <<client, now, abortControllers, req, normIn>>

(***************************************************************************)
(* Specifications.                                                         *)
(***************************************************************************)
\* a client constructed from `configs`, before any call
InitWith(configs) ==
    /\ client \in { Construct(config) : config \in configs }
    /\ now = 0
    /\ abortControllers = EmptyObj
    /\ req = [r \in Reqs |-> IdleReq]
    /\ normIn = EmptyObj
    /\ normOut = EmptyObj

Init == InitWith(CoreConfigs)

\* calls overlapping on one client
Next ==
    \/ Tick
    \/ \E r \in Reqs, arg \in CoreArgs : createWaitlyEntry(r, arg)
    \/ \E r \in Reqs : getWaitlyEntriesCount(r)
    \/ \E r \in Reqs, arg \in CoreArgs : checkEmailExists(r, arg)
    \/ cancelAllRequests
    \/ \E r \in Reqs : TimeoutFires(r)
    \/ \E r \in Reqs, line \in CoreStatusLines : FetchResolves(r, line)
    \/ \E r \in Reqs, resp \in CoreResponses : JsonSettles(r, resp)
    \/ \E r \in Reqs : FetchFails(r)
    \/ \E r \in Reqs : FetchAborted(r)
    \/ \E r \in Reqs : DelayElapses(r)

Spec == Init /\ [][Next]_vars

\* one call, every transport behaviour
InitOne == InitWith(OneConfigs)

NextOne ==
    \/ \E arg \in SampleArgs : createWaitlyEntry(1, arg)
    \/ getWaitlyEntriesCount(1)
    \/ \E arg \in SampleArgs : checkEmailExists(1, arg)
    \/ cancelAllRequests
    \/ TimeoutFires(1)
    \/ \E line \in RichStatusLines : FetchResolves(1, line)
    \/ \E resp \in RichResponses : JsonSettles(1, resp)
    \/ FetchFails(1)
    \/ FetchAborted(1)
    \/ DelayElapses(1)

SpecOne == InitOne /\ [][NextOne]_vars

\* the single call under fair timers: an armed timeout fires (149-151), a
\* backoff wait elapses (284-286), a fetch whose signal is aborted rejects and
\* a read of a body that has already arrived settles; the transport itself is
\* under no obligation to answer or to deliver a body
SpecOneFair ==
    /\ SpecOne
    /\ WF_vars(TimeoutFires(1))
    /\ WF_vars(DelayElapses(1))
    /\ WF_vars(FetchAborted(1))
    /\ WF_vars(\E resp \in RichResponses : BodyUsed(req[1]) /\ JsonSettles(1, resp))

\* one call on a client with the default retryAttempts, every email string
InitEmail == InitWith({[waitlistId |-> "wl_1", apiKey |-> "key_1"]})

NextEmail ==
    \/ \E arg \in AllArgs : createWaitlyEntry(1, arg)
    \/ \E arg \in AllArgs : checkEmailExists(1, arg)
    \/ cancelAllRequests
    \/ TimeoutFires(1)
    \/ \E line \in CoreStatusLines : FetchResolves(1, line)
    \/ \E resp \in CoreResponses : JsonSettles(1, resp)
    \/ FetchFails(1)
    \/ FetchAborted(1)
    \/ DelayElapses(1)

SpecEmail == InitEmail /\ [][NextEmail]_vars

\* construction from every configuration argument, then one call
InitConfig ==
    /\ client = [state |-> "none"]
    /\ now = 0
    /\ abortControllers = EmptyObj
    /\ req = [r \in Reqs |-> IdleReq]
    /\ normIn = EmptyObj
    /\ normOut = EmptyObj

NextConfig ==
    \/ \E config \in ConfigArgs : NewClient(config)
    \/ \E arg \in CoreArgs : createWaitlyEntry(1, arg)
    \/ getWaitlyEntriesCount(1)
    \/ \E arg \in CoreArgs : checkEmailExists(1, arg)
    \/ cancelAllRequests
    \/ TimeoutFires(1)
    \/ \E line \in CoreStatusLines : FetchResolves(1, line)
    \/ \E resp \in CoreResponses : JsonSettles(1, resp)
    \/ FetchFails(1)
    \/ FetchAborted(1)
    \/ DelayElapses(1)

SpecConfig == InitConfig /\ [][NextConfig]_vars

\* handleError on every raw error
InitNormalize ==
    /\ client = [state |-> "none"]
    /\ now = 0
    /\ abortControllers = EmptyObj
    /\ req = [r \in Reqs |-> IdleReq]
    /\ normIn \in RawErrors \ {EmptyObj}
    /\ normOut = EmptyObj

NextNormalize == Normalize

SpecNormalize == InitNormalize /\ [][NextNormalize]_vars

(***************************************************************************)
(* Vocabulary of the properties.                                           *)
(***************************************************************************)
Codes ==
    { "VALIDATION_ERROR", "UNAUTHORIZED", "NOT_FOUND", "DUPLICATE_ENTRY",
      "RATE_LIMIT", "TIMEOUT", "UNKNOWN_ERROR" }

\* the normalized error shape { code, message, details?, statusCode? }
NormalizedShape(e) ==
    /\ DOMAIN e \subseteq {"code", "message", "details", "statusCode"}
    /\ {"code", "message"} \subseteq DOMAIN e
    /\ e["code"] \in Codes

Settled(q) == q.pc \in {"returned", "raised"}

InFlight(q) == q.pc \in {"fetch", "errorBody", "data", "delay"}

\* the last response's body has arrived and the code has acted on it
BodyRead(q) == BodyUsed(q) /\ q.pc \notin {"errorBody", "data"}

\* how a fetch ended: with an HTTP status in lo..hi
StatusIn(h, lo, hi) == Has(h, "status") /\ h["status"] >= lo /\ h["status"] <= hi

FailedBy(h, failure) == Has(h, "failure") /\ h["failure"] = failure

\* a retryable failure: a status >= 500 or a network failure
Retryable(h) == StatusIn(h, 500, 599) \/ FailedBy(h, "network")

RetryAttempts == client.config.retryAttempts

\* an error body that carries no statusCode or name field of its own, nor the
\* message the normaliser reads as a timeout
PlainErrorBody(resp) ==
    /\ ~Has(ErrorBody(resp), "statusCode")
    /\ ~Has(ErrorBody(resp), "name")
    /\ ~(Has(ErrorBody(resp), "message") /\ ErrorBody(resp)["message"] = "Request timeout")

TimeoutNormalized == [code |-> "TIMEOUT", message |-> "Request timeout", statusCode |-> 0]

(***************************************************************************)
(* C1.  When the transport answers an attempt with a status in [400,500),  *)
(* the transport is not invoked again for that request and the request     *)
(* fails with that status; a 404 on the first attempt yields NOT_FOUND/404 *)
(* after exactly one invocation.                                           *)
(* Refuted: the 4xx error is thrown inside the loop's own try, the catch   *)
(* block falls through and the loop runs its next iteration at once.       *)
(* Stated for the last answer received, with an ordinary error body.       *)
(***************************************************************************)
C1_ClientErrorNotRetried ==
    \A r \in Reqs :
        LET q == req[r]
            n == Len(q.hist)
        IN  ( /\ n >= 1
              /\ StatusIn(q.hist[n], 400, 499)
              /\ BodyRead(q)
              /\ PlainErrorBody(q.lastResp) )
            => /\ q.calls = n
               /\ q.pc = "raised"
               /\ q.result.raised["statusCode"] = q.hist[n]["status"]
               /\ (q.hist[n]["status"] = 404 => q.result.raised["code"] = "NOT_FOUND")

(***************************************************************************)
(* C2.  With retryAttempts = N, when the first k < N attempts fail with a  *)
(* status >= 500 or a network failure and attempt k+1 is answered 2xx with *)
(* a payload, the operation returns (createWaitlyEntry: that payload), the *)
(* transport was invoked exactly k+1 times and the waits were 2^0, 2^1,    *)
(* ..., 2^(k-1) seconds in that order.                                     *)
(***************************************************************************)
C2_RetryThenSuccess ==
    \A r \in Reqs :
        LET q == req[r]
            k == Len(q.hist) - 1
        IN  ( /\ Len(q.hist) >= 1
              /\ k < RetryAttempts
              /\ \A i \in 1..k : Retryable(q.hist[i])
              /\ StatusIn(q.hist[k + 1], 200, 299)
              /\ BodyRead(q)
              /\ q.lastResp.body.json = "object" )
            => /\ q.pc = "returned"
               /\ q.op = "create" =>
                    q.result = [returned |-> "object", object |-> q.lastResp.body.value]
               /\ q.calls = k + 1
               /\ q.waits = [i \in 1..k |-> (2 ^ (i - 1)) * 1000]

\* two failures (a 500, then a network failure) and a success on the third attempt
C2_Witness ==
    /\ Len(req[1].hist) = 3
    /\ StatusIn(req[1].hist[1], 500, 500)
    /\ FailedBy(req[1].hist[2], "network")
    /\ StatusIn(req[1].hist[3], 200, 299)
    /\ req[1].pc = "returned"
    /\ req[1].waits = <<1000, 2000>>

(***************************************************************************)
(* C3.  When the timeout expires while the transport has not answered, the *)
(* request is aborted, the call fails with {code: TIMEOUT, message:        *)
(* 'Request timeout', statusCode: 0} and the transport is not invoked      *)
(* again for that request.                                                 *)
(***************************************************************************)
C3_TimeoutIsTerminal ==
    \A r \in Reqs : \A i \in 1..Len(req[r].hist) :
        (FailedBy(req[r].hist[i], "abort") /\ req[r].aborted = "timeout")
            => /\ i = Len(req[r].hist)
               /\ req[r].calls = i
               /\ req[r].pc = "raised"
               /\ req[r].result.raised = TimeoutNormalized

C3_Witness ==
    /\ req[1].aborted = "timeout"
    /\ req[1].calls = 1
    /\ req[1].hist = <<[failure |-> "abort"]>>
    /\ req[1].pc = "raised"
    /\ RetryAttempts > 1

(***************************************************************************)
(* C4.  cancelAllRequests called while two operations are in flight, in    *)
(* any phase (first attempt, retry attempt, backoff wait), aborts both; a  *)
(* cancelAllRequests with no operation in flight changes nothing.          *)
(* Refuted: a request's handle leaves the registry at its first response   *)
(* or failure, so a request that is retrying or waiting is not aborted,    *)
(* and two calls of one operation in the same millisecond share a key.     *)
(* The formula states the first half, the one that fails.                  *)
(***************************************************************************)
C4_CancelAllAbortsInFlight ==
    [][ cancelAllRequests =>
          LET inFlight == { r \in Reqs : InFlight(req[r]) }
          IN  Cardinality(inFlight) = 2 => \A r \in inFlight : req'[r].aborted # "no" ]_vars

(***************************************************************************)
(* C5.  When all retryAttempts attempts fail with a retryable failure, the *)
(* operation raises the failure of the last attempt: after a final 5xx     *)
(* response the caller receives UNKNOWN_ERROR with that response's status. *)
(* Refuted: after the last 5xx the loop body goes on to read the response  *)
(* body a second time (198); that read fails, and its error replaces the   *)
(* recorded one (or, with a body that can be read again, the error body is *)
(* returned as the result).                                                *)
(***************************************************************************)
C5_ExhaustionRaisesLastFailure ==
    \A r \in Reqs :
        LET q == req[r]
            n == Len(q.hist)
        IN  ( /\ Ready
              /\ n >= 1
              /\ n = RetryAttempts
              /\ \A i \in 1..n : Retryable(q.hist[i])
              /\ StatusIn(q.hist[n], 500, 599)
              /\ BodyRead(q)
              /\ PlainErrorBody(q.lastResp) )
            => /\ q.pc = "raised"
               /\ q.result.raised["code"] = "UNKNOWN_ERROR"
               /\ q.result.raised["statusCode"] = q.hist[n]["status"]

(***************************************************************************)
(* C6.  With retryAttempts >= 1 and whatever the transport does, an        *)
(* operation that passed its local validation either returns a value or    *)
(* raises an object of the normalized shape with one of the seven codes.   *)
(***************************************************************************)
C6_OnlyNormalizedErrors ==
    \A r \in Reqs :
        (Ready /\ RetryAttempts >= 1 /\ req[r].requestId # <<>> /\ req[r].pc = "raised")
            => NormalizedShape(req[r].result.raised)

\* a call whose every attempt ended in a network failure
C6_Witness ==
    /\ Ready
    /\ RetryAttempts = 2
    /\ req[1].pc = "raised"
    /\ req[1].hist = <<[failure |-> "network"], [failure |-> "network"]>>
    /\ req[1].result.raised["code"] = "UNKNOWN_ERROR"

(***************************************************************************)
(* C7.  handleError agrees with the table, rows taken in order: statusCode *)
(* 400, 401, 404, 409, 429 give VALIDATION_ERROR, UNAUTHORIZED, NOT_FOUND, *)
(* DUPLICATE_ENTRY, RATE_LIMIT with that status; otherwise the message     *)
(* 'Request timeout' gives (TIMEOUT, 0); otherwise (UNKNOWN_ERROR,         *)
(* statusCode or 0), so that 403, 500 and 503 (no timeout message) keep    *)
(* their status under UNKNOWN_ERROR.  The result always has the normalized *)
(* shape.                                                                  *)
(***************************************************************************)
TableCode(status) ==
    CASE status = 400 -> "VALIDATION_ERROR"
      [] status = 401 -> "UNAUTHORIZED"
      [] status = 404 -> "NOT_FOUND"
      [] status = 409 -> "DUPLICATE_ENTRY"
      [] status = 429 -> "RATE_LIMIT"
      [] OTHER -> "UNKNOWN_ERROR"

C7_NormalizerTable ==
    normOut # EmptyObj =>
        LET status == IF Has(normIn, "statusCode") THEN normIn["statusCode"] ELSE 0
            timeout == Has(normIn, "message") /\ normIn["message"] = "Request timeout"
        IN  /\ NormalizedShape(normOut)
            /\ IF status \in {400, 401, 404, 409, 429}
               THEN normOut["code"] = TableCode(status) /\ normOut["statusCode"] = status
               ELSE IF timeout
               THEN normOut["code"] = "TIMEOUT" /\ normOut["statusCode"] = 0
               ELSE normOut["code"] = "UNKNOWN_ERROR" /\ normOut["statusCode"] = status

C7_Witness ==
    /\ normOut # EmptyObj
    /\ Has(normIn, "statusCode")
    /\ normIn["statusCode"] = 409
    /\ normOut["code"] = "DUPLICATE_ENTRY"

(***************************************************************************)
(* C8.  For every malformed email (missing, no '@', no dot in the domain   *)
(* part, or containing whitespace) createWaitlyEntry and checkEmailExists  *)
(* fail with the local validation error before any network activity: no    *)
(* transport invocation, no registered handle, no armed timeout.           *)
(***************************************************************************)
Malformed(arg) ==
    \/ ~Has(arg, "email")
    \/ LET s == arg["email"]
           ats == { i \in 1..Len(s) : s[i] = "@" }
       IN  \/ s = <<>>
           \/ ats = {}
           \/ \E i \in 1..Len(s) : s[i] = " "
           \/ \E last \in ats :
                 /\ \A i \in ats : i <= last
                 /\ \A i \in (last + 1)..Len(s) : s[i] # "."

C8_MalformedEmailNeverSent ==
    \A r \in Reqs :
        (req[r].op \in {"create", "check"} /\ Malformed(req[r].arg))
            => /\ req[r].pc = "raised"
               /\ req[r].result.raised \in
                     { JsError("Email is required"), JsError("Invalid email format") }
               /\ req[r].calls = 0
               /\ req[r].hist = <<>>
               /\ ~req[r].timer
               /\ req[r].requestId = <<>>
               /\ r \notin RegisteredReqs

\* checkEmailExists given an address with a space in front of an otherwise valid one
C8_Witness ==
    /\ req[1].op = "check"
    /\ req[1].arg = Str(<<" ", "a", "@", ".", ".">>)
    /\ req[1].pc = "raised"
    /\ abortControllers = EmptyObj

(***************************************************************************)
(* C9.  For every configuration whose waitlistId or apiKey is absent or    *)
(* empty, construction fails ("waitlistId is required" first, then "apiKey *)
(* is required"), no client exists afterwards and no network call,         *)
(* registry entry or timer is created.                                     *)
(***************************************************************************)
C9_ConstructionFailsFast ==
    (client.state # "none" /\ (Blank(client.arg, "waitlistId") \/ Blank(client.arg, "apiKey")))
        => /\ client.state = "failed"
           /\ client.error = JsError(IF Blank(client.arg, "waitlistId")
                                     THEN "waitlistId is required"
                                     ELSE "apiKey is required")
           /\ abortControllers = EmptyObj
           /\ \A r \in Reqs : req[r] = IdleReq

\* a waitlistId with an empty apiKey
C9_Witness ==
    /\ client.state = "failed"
    /\ Has(client.arg, "waitlistId")
    /\ client.arg["waitlistId"] = "wl_1"
    /\ Has(client.arg, "apiKey")
    /\ client.error["message"] = "apiKey is required"

(***************************************************************************)
(* C10.  getWaitlyEntriesCount returns response.totalEntries whenever the  *)
(* 2xx payload has a totalEntries field (also when it has a count field    *)
(* too) and response.count otherwise: {totalEntries: 5} yields 5 and       *)
(* {count: 7} yields 7.                                                    *)
(***************************************************************************)
C10_CountNormalization ==
    \A r \in Reqs :
        LET q == req[r]
        IN  ( /\ q.op = "count"
              /\ Settled(q)
              /\ Len(q.hist) >= 1
              /\ StatusIn(q.hist[Len(q.hist)], 200, 299)
              /\ BodyRead(q)
              /\ q.lastResp.body.json = "object"
              /\ {"totalEntries", "count"} \cap DOMAIN q.lastResp.body.value # {} )
            => /\ q.pc = "returned"
               /\ q.result["returned"] = "number"
               /\ q.result["number"] =
                     IF Has(q.lastResp.body.value, "totalEntries")
                     THEN q.lastResp.body.value["totalEntries"]
                     ELSE q.lastResp.body.value["count"]

\* a payload carrying both fields
C10_Witness ==
    /\ req[1].op = "count"
    /\ req[1].pc = "returned"
    /\ req[1].lastResp.body = ObjectBody([totalEntries |-> 5, count |-> 7])
    /\ req[1].result = [returned |-> "number", number |-> 5]

(***************************************************************************)
(* C11.  A request's handle is in the registry from the moment the call    *)
(* starts until the request settles or cancelAllRequests runs: a step that *)
(* starts a request registers its handle, and a step other than            *)
(* cancelAllRequests that leaves a registered request unsettled (in a      *)
(* transport call, between attempts or in a backoff wait) leaves its       *)
(* handle in the registry.                                                 *)
(***************************************************************************)
C11_HandleRegisteredUntilSettled ==
    [][\A r \in Reqs :
          (/\ req[r].pc = "idle" \/ r \in RegisteredReqs
           /\ InFlight(req'[r])
           /\ ~cancelAllRequests)
          => r \in RegisteredReqs']_vars

(***************************************************************************)
(* C12.  With retryAttempts >= 1, once a request that reached the          *)
(* transport has settled (by success, client error, exhaustion or          *)
(* timeout), the registry holds no handle registered by that request,      *)
(* whatever other calls, timeouts and cancelAllRequests calls interleave.  *)
(***************************************************************************)
C12_SettledLeavesNoHandle ==
    \A r \in Reqs :
        (RetryAttempts >= 1 /\ Settled(req[r]) /\ req[r].calls >= 1)
        => r \notin RegisteredReqs

\* a request settled by exhaustion after a retry while another call's handle
\* is still registered
C12_Witness ==
    /\ RetryAttempts >= 1
    /\ req[1].pc = "raised" /\ req[1].calls = 2
    /\ 1 \notin RegisteredReqs
    /\ req[2].pc = "fetch" /\ 2 \in RegisteredReqs

(***************************************************************************)
(* C13.  Every request gets a unique identifier: any two requests that     *)
(* overlap in time (both issued, neither settled) have different registry  *)
(* keys, two calls of the same operation in one clock millisecond          *)
(* included, so neither replaces or removes the other's handle.            *)
(***************************************************************************)
C13_OverlappingRequestsHaveDistinctKeys ==
    \A r1, r2 \in Reqs :
        (r1 # r2 /\ InFlight(req[r1]) /\ InFlight(req[r2]))
        => req[r1].requestId # req[r2].requestId

(***************************************************************************)
(* C14.  Backoff is uniform: whenever the transport is invoked for attempt *)
(* index a >= 1, whatever way the earlier attempts failed, the request has *)
(* waited 2^0, 2^1, ..., 2^(a-1) seconds, one wait before each reattempt:  *)
(* no reattempt is issued without its wait.                                *)
(***************************************************************************)
C14_WaitBeforeEveryReattempt ==
    \A r \in Reqs :
        req[r].pc = "fetch"
        => req[r].waits = [i \in 1..(req[r].calls - 1) |-> (2 ^ (i - 1)) * 1000]

(***************************************************************************)
(* C15.  Every issued request eventually settles: under fair timers, a     *)
(* request whose transport stops answering on any attempt, the first or a  *)
(* retry, is ended by its own timeout and eventually returns or raises.    *)
(***************************************************************************)
C15_EveryRequestSettles ==
    \A r \in Reqs : InFlight(req[r]) ~> Settled(req[r])

(***************************************************************************)
(* C16.  For every request and every sequence of transport outcomes, the   *)
(* transport is invoked at most retryAttempts times in total, each time    *)
(* with an attempt index in 0..retryAttempts-1 (so not at all when that    *)
(* range is empty), and once the request has returned or raised, the       *)
(* transport is never invoked for it again.                                *)
(***************************************************************************)
C16_AtMostRetryAttemptsCalls ==
    /\ [](\A r \in Reqs :
            /\ req[r].calls = 0 \/ req[r].calls <= RetryAttempts
            /\ req[r].pc = "fetch" => req[r].attempt \in 0..(RetryAttempts - 1))
    /\ [][\A r \in Reqs :
            Settled(req[r]) => /\ req'[r].calls = req[r].calls
                               /\ req'[r].pc = req[r].pc]_vars

\* every one of three attempts failed and the request raised
C16_Witness ==
    /\ RetryAttempts = 3
    /\ req[1].pc = "raised"
    /\ req[1].calls = 3
    /\ Len(req[1].hist) = 3

(***************************************************************************)
(* C17.  cancelAllRequests can run in any state of a client (it never      *)
(* throws); it triggers abort on every handle then in the registry, leaves *)
(* the registry empty and settles nothing itself (it does not wait for the *)
(* requests); and it is idempotent: run again on the empty registry it     *)
(* leaves, it changes nothing.                                             *)
(***************************************************************************)
C17_CancelAllClearsAndIsIdempotent ==
    /\ [](Ready => ENABLED cancelAllRequests)
    /\ [][cancelAllRequests =>
            /\ \A r \in RegisteredReqs : req'[r].aborted # "no"
            /\ abortControllers' = EmptyObj
            /\ \A r \in Reqs : /\ req'[r].pc = req[r].pc
                               /\ req'[r].result = req[r].result
            /\ abortControllers = EmptyObj => UNCHANGED vars]_vars

\* two pending calls aborted by one cancelAllRequests, neither settled yet
C17_Witness ==
    /\ abortControllers = EmptyObj
    /\ \A r \in Reqs : req[r].pc = "fetch" /\ req[r].aborted = "cancel"

(***************************************************************************)
(* C18.  On every transport call, whatever extra-headers map the client    *)
(* was configured with, the X-API-Key and X-Waitlist-ID headers are        *)
(* present and carry the configured apiKey and waitlistId: extra headers   *)
(* cannot remove or replace the credentials.                               *)
(***************************************************************************)
C18_CredentialHeadersAlwaysSent ==
    \A r \in Reqs :
        req[r].calls >= 1
        => /\ Has(req[r].headers, "X-API-Key")
           /\ req[r].headers["X-API-Key"] = client.config.apiKey
           /\ Has(req[r].headers, "X-Waitlist-ID")
           /\ req[r].headers["X-Waitlist-ID"] = client.config.waitlistId

(***************************************************************************)
(* C19.  A request whose pending transport call is aborted by              *)
(* cancelAllRequests fails with the error of a timed-out request, {code:   *)
(* TIMEOUT, message: 'Request timeout', statusCode: 0}, and is not         *)
(* retried: the aborted attempt is its last one.                           *)
(***************************************************************************)
C19_CancelLooksLikeTimeout ==
    \A r \in Reqs :
        LET q == req[r]
            n == Len(q.hist)
        IN  (q.aborted = "cancel" /\ \E i \in 1..n : FailedBy(q.hist[i], "abort"))
            => /\ FailedBy(q.hist[n], "abort")
               /\ \A i \in 1..(n - 1) : ~FailedBy(q.hist[i], "abort")
               /\ q.calls = n
               /\ q.pc = "raised"
               /\ q.result = [raised |-> TimeoutNormalized]

\* a first attempt cancelled on a client that would have retried a failure
C19_Witness ==
    /\ RetryAttempts > 1
    /\ req[1].aborted = "cancel"
    /\ req[1].hist = <<[failure |-> "abort"]>>
    /\ req[1].calls = 1
    /\ req[1].result = [raised |-> TimeoutNormalized]

(***************************************************************************)
(* C20.  Whatever retryAttempts the constructor was given (absent, 0,      *)
(* negative or positive), the resolved retryAttempts is >= 1, so an        *)
(* operation that passed local validation and whose body can be sent has   *)
(* invoked the transport at least once, raises only normalized errors, and *)
(* never has a registered handle or an armed timeout without having made   *)
(* an attempt.                                                             *)
(***************************************************************************)
C20_ResolvedRetryAttemptsPositive ==
    \A r \in Reqs :
        (Ready /\ req[r].requestId # <<>> /\ Serializable(req[r].arg))
        => /\ RetryAttempts >= 1
           /\ req[r].calls >= 1
           /\ req[r].pc = "raised" => NormalizedShape(req[r].result.raised)
           /\ ~(req[r].calls = 0 /\ (req[r].timer \/ r \in RegisteredReqs))

====
